---- MODULE Spec2Model ----
(***************************************************************************)
(* CRM phone connection: subscription Store (services/storage.js), fan-out *)
(* Dispatcher (services/push.js), request validation                       *)
(* (middleware/validation.js) and the HTTP routes of app.js.               *)
(*                                                                         *)
(* JavaScript runs the handlers on one event loop: a handler runs to its   *)
(* first await without interleaving, a continuation after an await runs as *)
(* a microtask before any further request or network completion.           *)
(***************************************************************************)
EXTENDS Integers, Sequences, FiniteSets, TLC

(***************************************************************************)
(* Bounds of the exploration.                                              *)
(***************************************************************************)
\* array elements held by suspended callers, over all callers
MaxHeld == 2

\* key generations of the Key Manager that are followed
MaxGenerated == 3

\* longest run of characters in a phone number that is tried
MaxPhoneLen == 22

\* The callers followed while they are suspended: two of the services'
\* methods, and of the server one webhook request awaiting its fan-out.
CallSlots == {1, 2}
WebhookSlots == {1}

(***************************************************************************)
(* Strings are sequences of one-character strings, so that trim() and the  *)
(* phone regular expression are computed character by character.           *)
(***************************************************************************)
UserIds == {<<"u", "1">>, <<"u", "2">>}

Endpoints == {"https://push.example/1"}
ReorderedEndpoints == {"https://push.example/2"}

(***************************************************************************)
(* JavaScript objects as produced by the JSON body parser: a sequence of   *)
(* own properties in insertion order.  A property holds a string, a number *)
(* or a nested object.                                                     *)
(***************************************************************************)
Prop(k, t, v, o) == [k |-> k, t |-> t, v |-> v, o |-> o]
StrProp(k, v) == Prop(k, "string", v, <<>>)
NumProp(k, v) == Prop(k, "number", v, <<>>)
ObjProp(k, o) == Prop(k, "object", "", o)

KeysOf(e) == <<StrProp("p256dh", "BPub"), StrProp("auth", "secret")>>

\* A browser PushSubscription as it arrives in the body of POST /api/devices.
MkSubscription(e) == <<StrProp("endpoint", e), ObjProp("keys", KeysOf(e))>>
\* A client that sends keys before endpoint: the order of the properties is
\* the order of the request body.
MkReordered(e) == <<ObjProp("keys", KeysOf(e)), StrProp("endpoint", e)>>

Subscriptions ==
  {MkSubscription(e) : e \in Endpoints} \cup {MkReordered(e) : e \in ReorderedEndpoints}

(***************************************************************************)
(* JSON.stringify: the serialized form as a flat sequence of tokens; the   *)
(* properties are written in insertion order.                              *)
(***************************************************************************)
RECURSIVE StringifyProps(_)
StringifyValue(p) ==
  IF p.t = "object" THEN <<"{">> \o StringifyProps(p.o) \o <<"}">>
  ELSE IF p.t = "string" THEN <<"\"", p.v, "\"">>
  ELSE <<p.v>>

StringifyProps(props) ==
  IF props = <<>> THEN <<>>
  ELSE <<props[1].k, ":">> \o StringifyValue(props[1])
       \o (IF Len(props) > 1 THEN <<",">> \o StringifyProps(Tail(props)) ELSE <<>>)

JSONstringify(obj) == <<"{">> \o StringifyProps(obj) \o <<"}">>

(***************************************************************************)
(* JSON.parse of a serialized object: recursive descent over the tokens.   *)
(***************************************************************************)
RECURSIVE ParseProps(_, _)
ParseValue(tok, i, k) ==
  IF tok[i] = "{"
  THEN LET r == ParseProps(tok, i + 1)
       IN  [prop |-> ObjProp(k, r.props), pos |-> r.pos]
  ELSE IF tok[i] = "\""
  THEN [prop |-> StrProp(k, tok[i + 1]), pos |-> i + 3]
  ELSE [prop |-> NumProp(k, tok[i]), pos |-> i + 1]

ParseProps(tok, i) ==
  IF tok[i] = "}" THEN [props |-> <<>>, pos |-> i + 1]
  ELSE LET start == IF tok[i] = "," THEN i + 1 ELSE i
           pv == ParseValue(tok, start + 2, tok[start])
           rest == ParseProps(tok, pv.pos)
       IN  [props |-> <<pv.prop>> \o rest.props, pos |-> rest.pos]

JSONparse(tok) == ParseProps(tok, 2).props

(***************************************************************************)
(* StorageService: this.subscriptions is a Map userId -> Set of serialized *)
(* subscriptions.  A Set iterates in insertion order, so it is a sequence  *)
(* without repetitions; the Map is a function on the user ids it holds.    *)
(***************************************************************************)
SetHas(set, key) == \E i \in 1..Len(set) : set[i] = key
\* Variant: the key is appended without the membership test of Set.add.
SetAddAlways(set, key) == Append(set, key)

SetAdd(set, key) == IF SetHas(set, key) THEN set ELSE Append(set, key)
\* Variant: splice(indexOf(key), 1) on an array, which takes the last
\* element away when the key is absent.
SetDeleteSplice(set, key) ==
  IF SetHas(set, key) THEN SelectSeq(set, LAMBDA x : x # key)
  ELSE SubSeq(set, 1, Len(set) - 1)

SetDelete(set, key) == SelectSeq(set, LAMBDA x : x # key)

MapHas(map, k) == k \in DOMAIN map
MapDelete(map, k) == [x \in (DOMAIN map) \ {k} |-> map[x]]
EmptyMap == [x \in {} |-> <<>>]

\* Variant: one Set shared by the users the Store knows.
addSubscriptionShared(store, userId, subscription) ==
  LET created == IF MapHas(store, userId) THEN store ELSE store @@ (userId :> <<>>)
      subscriptionKey == JSONstringify(subscription)
  IN  [u \in DOMAIN created |-> SetAdd(created[u], subscriptionKey)]

addSubscription(store, userId, subscription) ==
  LET created == IF MapHas(store, userId) THEN store ELSE store @@ (userId :> <<>>)
      subscriptionKey == JSONstringify(subscription)
  IN  [created EXCEPT ![userId] = SetAdd(@, subscriptionKey)]

\* Variant: the entry of a user is kept when its last record is deleted.
removeSubscriptionKeepEntry(store, userId, subscription) ==
  IF ~MapHas(store, userId) THEN store
  ELSE [store EXCEPT ![userId] = SetDelete(@, JSONstringify(subscription))]

\* Variant: the user's Set is created when missing, as addSubscription does.
removeSubscriptionGetOrCreate(store, userId, subscription) ==
  LET created == IF MapHas(store, userId) THEN store ELSE store @@ (userId :> <<>>)
      subscriptionKey == JSONstringify(subscription)
      removed == SetHas(created[userId], subscriptionKey)
      deleted == [created EXCEPT ![userId] = SetDelete(@, subscriptionKey)]
  IN  IF removed /\ Len(deleted[userId]) = 0
      THEN MapDelete(deleted, userId)
      ELSE deleted

\* Variant: the user's whole entry is deleted with the record.
removeSubscriptionDropUser(store, userId, subscription) ==
  IF ~MapHas(store, userId) THEN store
  ELSE IF SetHas(store[userId], JSONstringify(subscription))
  THEN MapDelete(store, userId)
  ELSE store

removeSubscription(store, userId, subscription) ==
  IF ~MapHas(store, userId) THEN store
  ELSE LET subscriptionKey == JSONstringify(subscription)
           removed == SetHas(store[userId], subscriptionKey)
           deleted == [store EXCEPT ![userId] = SetDelete(@, subscriptionKey)]
       IN  IF removed /\ Len(deleted[userId]) = 0
           THEN MapDelete(deleted, userId)
           ELSE deleted

getUserCount(store) == Cardinality(DOMAIN store)

(***************************************************************************)
(* An array handed out by the Store.  getSubscriptions builds a fresh      *)
(* array of freshly parsed objects (live = FALSE, the elements are held in *)
(* items); an array that aliased the Store's own collection would be       *)
(* live = TRUE and read through to the Store on every access.              *)
(***************************************************************************)
StoredObjects(store, userId) ==
  IF ~MapHas(store, userId) THEN <<>>
  ELSE [i \in 1..Len(store[userId]) |-> JSONparse(store[userId][i])]

\* Variant: the Store's own collection is handed out.
getSubscriptionsLive(store, userId) == [live |-> TRUE, userId |-> userId, items |-> <<>>]

getSubscriptions(store, userId) ==
  [live |-> FALSE, userId |-> userId, items |-> StoredObjects(store, userId)]

ArrayItems(store, arr) ==
  IF arr.live THEN StoredObjects(store, arr.userId) ELSE arr.items

EmptyArray == [live |-> FALSE, userId |-> <<>>, items |-> <<>>]

(***************************************************************************)
(* JavaScript values of headers and body fields.                           *)
(***************************************************************************)
Undefined == [t |-> "undefined", s |-> <<>>]
Str(s) == [t |-> "string", s |-> s]
Num(s) == [t |-> "number", s |-> s]

\* !value is FALSE exactly for the truthy values.
Truthy(v) ==
  \/ v.t = "string" /\ v.s # <<>>
  \/ v.t = "number" /\ v.s # <<"0">>

WhiteSpace == {" ", "\t", "\n"}
Digits == {"0", "1", "2", "3", "4", "5", "6", "7", "8", "9"}

RECURSIVE TrimStart(_)
TrimStart(s) ==
  IF s # <<>> /\ Head(s) \in WhiteSpace THEN TrimStart(Tail(s)) ELSE s

RECURSIVE TrimEnd(_)
TrimEnd(s) ==
  IF s # <<>> /\ s[Len(s)] \in WhiteSpace THEN TrimEnd(SubSeq(s, 1, Len(s) - 1)) ELSE s

Trim(s) == TrimEnd(TrimStart(s))

\* /^\+?[\d\s\-\(\)]{7,20}$/ : the class [\d\s\-\(\)]
PhoneClass == Digits \cup WhiteSpace \cup {"-", "(", ")"}
PhoneMinLen == 7
PhoneMaxLen == 20

\* Variant: {7,} in place of {7,20}.
ClassRunNoUpperBound(s) ==
  /\ Len(s) >= PhoneMinLen
  /\ \A i \in 1..Len(s) : s[i] \in PhoneClass

ClassRun(s) ==
  /\ Len(s) >= PhoneMinLen
  /\ Len(s) <= PhoneMaxLen
  /\ \A i \in 1..Len(s) : s[i] \in PhoneClass

PhoneRegexTest(s) ==
  \/ ClassRun(s)
  \/ s # <<>> /\ Head(s) = "+" /\ ClassRun(Tail(s))

isValidPhoneNumber(phoneNumber) ==
  /\ Truthy(phoneNumber)
  /\ phoneNumber.t = "string"
  /\ PhoneRegexTest(Trim(phoneNumber.s))

(***************************************************************************)
(* middleware/validation.js.  A middleware either answers with a status    *)
(* code or calls next(), written Next0 here.                               *)
(***************************************************************************)
Next0 == 0

requireHeader(headerValue) ==
  IF ~Truthy(headerValue) \/ Trim(headerValue.s) = <<>> THEN 400 ELSE Next0

validatedHeader(headerValue) == Trim(headerValue.s)

\* Variant: a missing token is answered like a wrong one.
validateWebhookTokenForbidAll(expectedToken, token) ==
  IF token # expectedToken THEN 403 ELSE Next0

validateWebhookToken(expectedToken, token) ==
  IF ~Truthy(token) THEN 401
  ELSE IF token # expectedToken THEN 403
  ELSE Next0

validateCallWebhook(body) ==
  IF \/ ~Truthy(body.owner_user_id)
     \/ body.owner_user_id.t # "string"
     \/ Trim(body.owner_user_id.s) = <<>>
  THEN 400
  ELSE IF ~Truthy(body.callee_number) \/ body.callee_number.t # "string"
  THEN 400
  ELSE IF ~isValidPhoneNumber(body.callee_number)
  THEN 400
  ELSE Next0

validatedData(body) ==
  [userId |-> Trim(body.owner_user_id.s), phoneNumber |-> Trim(body.callee_number.s)]

\* Property lookup on a parsed object.
HasProp(obj, name) == \E i \in 1..Len(obj) : obj[i].k = name
GetProp(obj, name) == obj[CHOOSE i \in 1..Len(obj) : obj[i].k = name]
PropTruthy(obj, name) ==
  /\ HasProp(obj, name)
  /\ LET p == GetProp(obj, name)
     IN  \/ p.t = "object"
         \/ p.t = "string" /\ p.v # ""
         \/ p.t = "number" /\ p.v # "0"

\* Variant: the checks of keys are missing.
validateSubscriptionEndpointOnly(subscription) ==
  IF ~PropTruthy(subscription, "endpoint") \/ GetProp(subscription, "endpoint").t # "string"
  THEN 400
  ELSE Next0

validateSubscription(subscription) ==
  IF ~PropTruthy(subscription, "endpoint") \/ GetProp(subscription, "endpoint").t # "string"
  THEN 400
  ELSE IF ~PropTruthy(subscription, "keys") \/ GetProp(subscription, "keys").t # "object"
  THEN 400
  ELSE IF \/ ~PropTruthy(GetProp(subscription, "keys").o, "p256dh")
          \/ ~PropTruthy(GetProp(subscription, "keys").o, "auth")
  THEN 400
  ELSE Next0

(***************************************************************************)
(* State.                                                                  *)
(*   subscriptions  StorageService.subscriptions                           *)
(*   calls          the callers holding an array of getSubscriptions over  *)
(*                  event-loop turns, one slot each: a sendToUser          *)
(*                  suspended at the await of Promise.allSettled (pc =     *)
(*                  "await"), or another caller keeping the array (pc =    *)
(*                  "held")                                                *)
(*   hits           webhookLimiter: requests counted per client in the     *)
(*                  current window                                         *)
(*   res            the result the last step delivered: an HTTP response,  *)
(*                  or the value sendToUser returned to a direct caller;   *)
(*                  NoResponse after a step that delivered nothing         *)
(*   vapid          the VapidService singleton with the process            *)
(*                  environment it reads and the key lines it has logged   *)
(***************************************************************************)
VARIABLES subscriptions, calls, hits, res, vapid

vars == <<subscriptions, calls, hits, res, vapid>>

WEBHOOK_TOKEN == Str(<<"s", "e", "c", "r", "e", "t">>)
RateLimitMax == 10
Clients == {"10.0.0.1"}

\* What webpush.sendNotification rejects with: a WebPushError carrying the
\* status code of the push service.
StatusCodes == {410, 400, 404}

Pending == [status |-> "pending", statusCode |-> 0]
Fulfilled == [status |-> "fulfilled", statusCode |-> 0]
Rejected(code) == [status |-> "rejected", statusCode |-> code]
Outcomes == {Fulfilled} \cup {Rejected(code) : code \in StatusCodes}

IdleCall ==
  [pc |-> "idle", userId |-> <<>>, subscriptions |-> EmptyArray,
   results |-> <<>>, attempts |-> <<>>, via |-> "none"]

NoResponse ==
  [route |-> "none", by |-> "none", status |-> 0, userId |-> <<>>, sent |-> -1, total |-> -1]
\* An answer of a middleware: status and an error body.
Response(route, by, status) ==
  [route |-> route, by |-> by, status |-> status, userId |-> <<>>, sent |-> -1, total |-> -1]
\* 201 { success, message, userId } of the registration handler.
Registered(userId) ==
  [route |-> "/api/devices", by |-> "handler", status |-> 201, userId |-> userId,
   sent |-> -1, total |-> -1]
\* Variant: a fan-out with a failed attempt fails the webhook request.
CountsFailingPartial(via, userId, sent, total) ==
  IF via = "webhook"
  THEN [route |-> "/webhooks/call", by |-> "handler",
        status |-> IF sent < total THEN 500 ELSE 200, userId |-> userId,
        sent |-> sent, total |-> total]
  ELSE [route |-> "sendToUser", by |-> "caller", status |-> 0, userId |-> userId,
        sent |-> sent, total |-> total]

\* Variant: total is read from the Store when the call returns.
CountsOfStore(via, userId, sent, total) ==
  [route |-> IF via = "webhook" THEN "/webhooks/call" ELSE "sendToUser",
   by |-> IF via = "webhook" THEN "handler" ELSE "caller",
   status |-> IF via = "webhook" THEN 200 ELSE 0,
   userId |-> userId, sent |-> sent,
   total |-> Len(StoredObjects(subscriptions, userId))]

\* { sent, total } of sendToUser; the webhook handler copies both into its
\* 200 response next to userId.
Counts(via, userId, sent, total) ==
  IF via = "webhook"
  THEN [route |-> "/webhooks/call", by |-> "handler", status |-> 200, userId |-> userId,
        sent |-> sent, total |-> total]
  ELSE [route |-> "sendToUser", by |-> "caller", status |-> 0, userId |-> userId,
        sent |-> sent, total |-> total]

(***************************************************************************)
(* VapidService (services/vapid.js).  process.env gives VAPID_PUBLIC_KEY   *)
(* and VAPID_PRIVATE_KEY or leaves them unset; webpush.generateVAPIDKeys() *)
(* yields a fresh random pair at every call.                               *)
(***************************************************************************)
Unset == ""
Env(publicKey, privateKey) == [VAPID_PUBLIC_KEY |-> publicKey, VAPID_PRIVATE_KEY |-> privateKey]
NoEnv == Env(Unset, Unset)
Envs == {NoEnv, Env("EnvPub", "EnvPriv"), Env("EnvPub", Unset), Env(Unset, "EnvPriv")}

VapidKeys(n) == [publicKey |-> <<"Pub", n>>, privateKey |-> <<"Priv", n>>]
GeneratedKeys == {VapidKeys(n) : n \in 1..3}
AdminEmails == {"admin@example.com", "ops@example.com"}

\* constructor(): no keys, no contact address; nothing logged yet.
VapidConstructed(env) ==
  [env |-> env, publicKey |-> Unset, privateKey |-> Unset, adminEmail |-> Unset,
   log |-> <<>>]

\* if (!this.publicKey || !this.privateKey)
KeysMissing(env) == env.VAPID_PUBLIC_KEY = Unset \/ env.VAPID_PRIVATE_KEY = Unset

\* initialize(adminEmail), vapidKeys being what generateVAPIDKeys() yields
\* when it is called; log gets the pair written by console.log.
initialize(v, adminEmail, vapidKeys) ==
  IF KeysMissing(v.env)
  THEN [v EXCEPT !.adminEmail = adminEmail,
                 !.publicKey = vapidKeys.publicKey,
                 !.privateKey = vapidKeys.privateKey,
                 !.log = Append(@, vapidKeys)]
  ELSE [v EXCEPT !.adminEmail = adminEmail,
                 !.publicKey = v.env.VAPID_PUBLIC_KEY,
                 !.privateKey = v.env.VAPID_PRIVATE_KEY]

getPublicKey(v) == v.publicKey

Init ==
  /\ subscriptions = EmptyMap
  /\ calls = [c \in CallSlots |-> IdleCall]
  /\ hits = [cl \in Clients |-> 0]
  /\ res = NoResponse
  /\ vapid = VapidConstructed(NoEnv)

(***************************************************************************)
(* PushService.sendToUser up to its await.                                 *)
(***************************************************************************)
\* Variant: Promise.all, which rejects with the first rejection.
AllFulfilledOrOneRejected(results) ==
  \/ \E i \in 1..Len(results) : results[i].status = "rejected"
  \/ \A i \in 1..Len(results) : results[i].status = "fulfilled"

\* Promise.allSettled settles once every promise it was given has settled.
AllSettled(results) == \A i \in 1..Len(results) : results[i].status # "pending"

\* The continuation of a settled await is a microtask: it runs before the
\* event loop takes the next request or network completion.
MicrotaskPending ==
  \E c \in CallSlots : calls[c].pc = "await" /\ AllSettled(calls[c].results)

IdleSlots(slots) == {c \in slots : calls[c].pc = "idle"}
FreeSlot(slots) == CHOOSE c \in IdleSlots(slots) : \A d \in IdleSlots(slots) : c <= d

\* subscriptions.map(subscription => this.sendNotification(...)): one
\* webpush.sendNotification per element, all started before the await.
StartAttempts(subs) == [i \in 1..Len(subs) |-> 1]

\* sendToUser(userId, payload) called in slot c by caller via: the new calls.
sendToUserCalls(c, userId, via) ==
  LET subs == getSubscriptions(subscriptions, userId)
      n == Len(ArrayItems(subscriptions, subs))
  IN  [calls EXCEPT ![c] =
         [pc |-> "await", userId |-> userId, subscriptions |-> subs,
          results |-> [i \in 1..n |-> Pending],
          attempts |-> StartAttempts(ArrayItems(subscriptions, subs)),
          via |-> via]]

\* Variant: the early return is missing.
sendToUserNeverAtOnce(userId) == FALSE

\* if (subscriptions.length === 0) return { sent: 0, total: 0 }
sendToUserReturnsAtOnce(userId) ==
  Len(ArrayItems(subscriptions, getSubscriptions(subscriptions, userId))) = 0

(***************************************************************************)
(* PushService.sendToUser after the await: results.forEach.                *)
(***************************************************************************)
\* Variants: only 410 Gone counts; every status of 400 and above counts.
IsPermanentFailureGoneOnly(reason) == reason.statusCode = 410
IsPermanentFailureAnyStatus(reason) == reason.statusCode >= 400

IsPermanentFailure(reason) == reason.statusCode = 410 \/ reason.statusCode = 400

RECURSIVE ForEachResult(_, _, _, _, _)
\* The loop body from index i on; yields the count of fulfilled results and
\* the Store after the removals.
ForEachResult(store, userId, subs, results, i) ==
  IF i > Len(results) THEN [sent |-> 0, store |-> store]
  ELSE LET result == results[i]
           items == ArrayItems(store, subs)
           after ==
             IF result.status = "fulfilled" THEN store
             ELSE IF IsPermanentFailure(result) /\ i <= Len(items)
                  THEN removeSubscription(store, userId, items[i])
                  ELSE store
           rest == ForEachResult(after, userId, subs, results, i + 1)
       IN  [sent |-> (IF result.status = "fulfilled" THEN 1 ELSE 0) + rest.sent,
            store |-> rest.store]

(***************************************************************************)
(* Inputs.                                                                 *)
(***************************************************************************)
ValidPhone == <<"+", "1", "2", "3", "4", "5", "6", "7", "8", "9", "0">>

Tokens == {Undefined, Str(<<>>), Str(<<"w", "r", "o", "n", "g">>), WEBHOOK_TOKEN}
OwnerValues == {Undefined, Str(<<" ">>), Str(<<" ", "u", "1", " ">>), Str(<<"u", "2">>)}
CalleeValues ==
  {Undefined, Num(<<"5">>), Str(<<"a", "b", "c">>), Str(<<" ">> \o ValidPhone)}
WebhookBodies == [owner_user_id : OwnerValues, callee_number : CalleeValues]

HeaderValues == {Undefined, Str(<<" ">>), Str(<<" ", "u", "1">>), Str(<<"u", "2">>)}
InvalidSubscriptions ==
  {<<>>,
   <<StrProp("endpoint", ""), ObjProp("keys", KeysOf(""))>>,
   <<StrProp("endpoint", "https://push.example/1"),
     ObjProp("keys", <<StrProp("p256dh", "BPub")>>)>>,
   <<StrProp("endpoint", "https://push.example/1"),
     ObjProp("keys", <<StrProp("p256dh", ""), StrProp("auth", "secret")>>)>>}
DeviceBodies == Subscriptions \cup InvalidSubscriptions

(***************************************************************************)
(* The exploration stops suspending callers at MaxHeld array elements.     *)
(***************************************************************************)
RECURSIVE SumOver(_, _)
SumOver(f, dom) ==
  IF dom = {} THEN 0
  ELSE LET x == CHOOSE y \in dom : TRUE IN f[x] + SumOver(f, dom \ {x})

TotalStored(store) == SumOver([u \in DOMAIN store |-> Len(store[u])], DOMAIN store)
TotalHeld(cs) == SumOver([c \in DOMAIN cs |-> Len(cs[c].subscriptions.items)], DOMAIN cs)

(***************************************************************************)
(* StorageService.getStats.  Number.prototype.toFixed(2) renders a number  *)
(* as a string with two decimals, rounded to the nearest hundredth (the    *)
(* larger one of two equally near, which is exact for the quotients of the *)
(* counts that occur here).                                                *)
(***************************************************************************)
DigitChar(d) == <<"0", "1", "2", "3", "4", "5", "6", "7", "8", "9">>[d + 1]

RECURSIVE IntDigits(_)
IntDigits(n) == IF n < 10 THEN <<DigitChar(n)>> ELSE Append(IntDigits(n \div 10), DigitChar(n % 10))

\* (num / den).toFixed(2)
QuotientToFixed2(num, den) ==
  LET hundredths == (200 * num + den) \div (2 * den)
  IN  IntDigits(hundredths \div 100)
        \o <<".", DigitChar((hundredths % 100) \div 10), DigitChar(hundredths % 10)>>

\* Variant: the records are counted once each, whoever holds them.
TotalStoredDistinct(store) ==
  Cardinality(UNION {{store[u][i] : i \in 1..Len(store[u])} : u \in DOMAIN store})

getTotalSubscriptions(store) == TotalStored(store)

getStats(store) ==
  [users |-> getUserCount(store),
   totalSubscriptions |-> getTotalSubscriptions(store),
   avgSubscriptionsPerUser |->
     IF getUserCount(store) > 0
     THEN Str(QuotientToFixed2(getTotalSubscriptions(store), getUserCount(store)))
     ELSE Num(<<"0">>)]

(***************************************************************************)
(* Operations of the services, called directly.                            *)
(***************************************************************************)
AddSubscription(userId, subscription) ==
  /\ ~MicrotaskPending
  /\ subscriptions' = addSubscription(subscriptions, userId, subscription)
  /\ res' = NoResponse
  /\ UNCHANGED <<calls, hits, vapid>>

RemoveSubscription(userId, subscription) ==
  /\ ~MicrotaskPending
  /\ subscriptions' = removeSubscription(subscriptions, userId, subscription)
  /\ res' = NoResponse
  /\ UNCHANGED <<calls, hits, vapid>>

\* A caller obtains the array of a user's subscriptions and keeps it.
GetSubscriptions(userId) ==
  /\ ~MicrotaskPending
  /\ IdleSlots(CallSlots) # {}
  /\ calls' = [calls EXCEPT ![FreeSlot(CallSlots)] =
                 [IdleCall EXCEPT !.pc = "held", !.userId = userId, !.via = "direct",
                    !.subscriptions = getSubscriptions(subscriptions, userId)]]
  /\ TotalHeld(calls') <= MaxHeld
  /\ res' = NoResponse
  /\ UNCHANGED <<subscriptions, hits, vapid>>

\* The caller empties the array it holds (array.length = 0) and drops it.  An
\* array that aliased the Store would empty the user's collection with it.
MutateView(c) ==
  /\ ~MicrotaskPending
  /\ calls[c].pc = "held"
  /\ Len(ArrayItems(subscriptions, calls[c].subscriptions)) > 0
  /\ subscriptions' =
       IF calls[c].subscriptions.live /\ MapHas(subscriptions, calls[c].userId)
       THEN [subscriptions EXCEPT ![calls[c].userId] = <<>>]
       ELSE subscriptions
  /\ calls' = [calls EXCEPT ![c] = IdleCall]
  /\ res' = NoResponse
  /\ UNCHANGED <<hits, vapid>>

\* The caller drops the array it holds.
DropView(c) ==
  /\ ~MicrotaskPending
  /\ calls[c].pc = "held"
  /\ calls' = [calls EXCEPT ![c] = IdleCall]
  /\ res' = NoResponse
  /\ UNCHANGED <<subscriptions, hits, vapid>>

SendToUser(userId) ==
  /\ ~MicrotaskPending
  /\ IF sendToUserReturnsAtOnce(userId)
     THEN /\ res' = Counts("direct", userId, 0, 0)
          /\ UNCHANGED calls
     ELSE /\ IdleSlots(CallSlots) # {}
          /\ calls' = sendToUserCalls(FreeSlot(CallSlots), userId, "direct")
          /\ TotalHeld(calls') <= MaxHeld
          /\ res' = NoResponse
  /\ UNCHANGED <<subscriptions, hits, vapid>>

\* The push service answers attempt i of call c; sendNotification lets the
\* outcome through (a rejection is re-thrown with userId added).
Settle(c, i, outcome) ==
  /\ ~MicrotaskPending
  /\ calls[c].pc = "await"
  /\ i \in 1..Len(calls[c].results)
  /\ calls[c].results[i].status = "pending"
  /\ calls' = [calls EXCEPT ![c].results[i] = outcome]
  /\ res' = NoResponse
  /\ UNCHANGED <<subscriptions, hits, vapid>>

\* The await of Promise.allSettled resumes: count, remove, return; a call
\* made by the webhook handler answers the request with the counts.
Resume(c) ==
  /\ calls[c].pc = "await"
  /\ AllSettled(calls[c].results)
  /\ LET r == ForEachResult(subscriptions, calls[c].userId, calls[c].subscriptions,
                            calls[c].results, 1)
         total == Len(ArrayItems(r.store, calls[c].subscriptions))
     IN  /\ subscriptions' = r.store
         /\ res' = Counts(calls[c].via, calls[c].userId, r.sent, total)
  /\ calls' = [calls EXCEPT ![c] = IdleCall]
  /\ UNCHANGED <<hits, vapid>>

(***************************************************************************)
(* Routes of app.js.                                                       *)
(***************************************************************************)
\* POST /api/devices: requireHeader('X-User-Id'), validateSubscription, handler.
\* The answer of the chain to a request.
DevicesAnswer(headerValue, body) ==
  IF requireHeader(headerValue) # Next0
  THEN Response("/api/devices", "requireHeader", requireHeader(headerValue))
  ELSE IF validateSubscription(body) # Next0
  THEN Response("/api/devices", "validateSubscription", validateSubscription(body))
  ELSE Registered(validatedHeader(headerValue))

\* The Store after the request: the handler calls addSubscription.
DevicesStore(store, headerValue, body) ==
  IF requireHeader(headerValue) = Next0 /\ validateSubscription(body) = Next0
  THEN addSubscription(store, validatedHeader(headerValue), body)
  ELSE store

PostDevices(headerValue, body) ==
  /\ ~MicrotaskPending
  /\ res' = DevicesAnswer(headerValue, body)
  /\ subscriptions' = DevicesStore(subscriptions, headerValue, body)
  /\ UNCHANGED <<calls, hits, vapid>>

\* webhookLimiter: count the request, answer 429 above max.
LimiterCount(client) == hits[client] + 1
\* Variant: the comparison is off by one, an eleventh request passes.
LimiterRejectsOffByOne(client) == LimiterCount(client) > RateLimitMax + 1

LimiterRejects(client) == LimiterCount(client) > RateLimitMax

\* POST /webhooks/call: webhookLimiter, validateWebhookToken, validateCallWebhook,
\* handler.  The answer of the chain to a request, or NoResponse when the
\* handler is left awaiting sendToUser.
WebhookAnswer(client, token, body) ==
  IF LimiterRejects(client)
  THEN Response("/webhooks/call", "webhookLimiter", 429)
  ELSE IF validateWebhookToken(WEBHOOK_TOKEN, token) # Next0
  THEN Response("/webhooks/call", "validateWebhookToken",
                validateWebhookToken(WEBHOOK_TOKEN, token))
  ELSE IF validateCallWebhook(body) # Next0
  THEN Response("/webhooks/call", "validateCallWebhook", validateCallWebhook(body))
  ELSE IF sendToUserReturnsAtOnce(validatedData(body).userId)
  THEN Counts("webhook", validatedData(body).userId, 0, 0)
  ELSE NoResponse

\* Variant: validateCallWebhook is missing from the chain's gate.
WebhookDispatchesUnvalidated(client, token, body) ==
  /\ ~LimiterRejects(client)
  /\ validateWebhookToken(WEBHOOK_TOKEN, token) = Next0

\* The request reaches pushService.sendToUser.
WebhookDispatches(client, token, body) ==
  /\ ~LimiterRejects(client)
  /\ validateWebhookToken(WEBHOOK_TOKEN, token) = Next0
  /\ validateCallWebhook(body) = Next0

\* Variant: the token check runs before the limiter, which then counts the
\* requests with an accepted token only.
PostWebhooksCallTokenFirst(client, token, body) ==
  /\ ~MicrotaskPending
  /\ IF validateWebhookToken(WEBHOOK_TOKEN, token) # Next0
     THEN /\ res' = Response("/webhooks/call", "validateWebhookToken",
                             validateWebhookToken(WEBHOOK_TOKEN, token))
          /\ UNCHANGED <<hits, calls>>
     ELSE /\ hits' = [hits EXCEPT ![client] =
                        IF LimiterRejects(client) THEN RateLimitMax + 1
                        ELSE LimiterCount(client)]
          /\ res' = WebhookAnswer(client, token, body)
          /\ IF WebhookDispatches(client, token, body)
                  /\ ~sendToUserReturnsAtOnce(validatedData(body).userId)
             THEN /\ IdleSlots(WebhookSlots) # {}
                  /\ calls' = sendToUserCalls(FreeSlot(WebhookSlots),
                                              validatedData(body).userId, "webhook")
                  /\ TotalHeld(calls') <= MaxHeld
             ELSE UNCHANGED calls
  /\ UNCHANGED <<subscriptions, vapid>>

PostWebhooksCall(client, token, body) ==
  /\ ~MicrotaskPending
  /\ hits' = [hits EXCEPT ![client] =
                IF LimiterRejects(client) THEN RateLimitMax + 1 ELSE LimiterCount(client)]
  /\ res' = WebhookAnswer(client, token, body)
  /\ IF WebhookDispatches(client, token, body)
          /\ ~sendToUserReturnsAtOnce(validatedData(body).userId)
     THEN /\ IdleSlots(WebhookSlots) # {}
          /\ calls' = sendToUserCalls(FreeSlot(WebhookSlots), validatedData(body).userId,
                                      "webhook")
          /\ TotalHeld(calls') <= MaxHeld
     ELSE UNCHANGED calls
  /\ UNCHANGED <<subscriptions, vapid>>

\* The limiter's one-minute window of a client ends.
WindowReset(client) ==
  /\ ~MicrotaskPending
  /\ hits[client] > 0
  /\ hits' = [hits EXCEPT ![client] = 0]
  /\ res' = NoResponse
  /\ UNCHANGED <<subscriptions, calls, vapid>>

(***************************************************************************)
(* Specifications.  Spec is the running server: requests, push service     *)
(* answers and the limiter's clock.  SpecService drives the Store and the  *)
(* Dispatcher through their methods.                                       *)
(***************************************************************************)
Next ==
  \/ \E h \in HeaderValues, b \in DeviceBodies : PostDevices(h, b)
  \/ \E cl \in Clients, t \in Tokens, b \in WebhookBodies : PostWebhooksCall(cl, t, b)
  \/ \E cl \in Clients : WindowReset(cl)
  \/ \E c \in CallSlots, i \in 1..MaxHeld, o \in Outcomes : Settle(c, i, o)
  \/ \E c \in CallSlots : Resume(c)

Spec == Init /\ [][Next]_vars

NextService ==
  \/ \E u \in UserIds, s \in Subscriptions : AddSubscription(u, s)
  \/ \E u \in UserIds, s \in Subscriptions : RemoveSubscription(u, s)
  \/ \E u \in UserIds : GetSubscriptions(u)
  \/ \E c \in CallSlots : MutateView(c)
  \/ \E c \in CallSlots : DropView(c)
  \/ \E u \in UserIds : SendToUser(u)
  \/ \E c \in CallSlots, i \in 1..MaxHeld, o \in Outcomes : Settle(c, i, o)
  \/ \E c \in CallSlots : Resume(c)

SpecService == Init /\ [][NextService]_vars

(***************************************************************************)
(* The Key Manager on its own: a process with any environment, in which    *)
(* initialize and the route of the public key are called.                  *)
(***************************************************************************)
InitVapid ==
  /\ subscriptions = EmptyMap
  /\ calls = [c \in CallSlots |-> IdleCall]
  /\ hits = [cl \in Clients |-> 0]
  /\ res = NoResponse
  /\ \E env \in Envs : vapid = VapidConstructed(env)

VapidInitialize(adminEmail, vapidKeys) ==
  /\ vapid' = initialize(vapid, adminEmail, vapidKeys)
  /\ Len(vapid'.log) <= MaxGenerated
  /\ res' = NoResponse
  /\ UNCHANGED <<subscriptions, calls, hits>>

\* GET /api/vapid-public-key: { publicKey: vapidService.getPublicKey() }
GetVapidPublicKey ==
  /\ res' = [route |-> "/api/vapid-public-key", by |-> "handler", status |-> 200,
             userId |-> <<>>, sent |-> -1, total |-> -1,
             publicKey |-> getPublicKey(vapid)]
  /\ UNCHANGED <<subscriptions, calls, hits, vapid>>

NextVapid ==
  \/ \E e \in AdminEmails, k \in GeneratedKeys : VapidInitialize(e, k)
  \/ GetVapidPublicKey

SpecVapid == InitVapid /\ [][NextVapid]_vars

(***************************************************************************)
(* isValidPhoneNumber on its own, called with one value after another.     *)
(***************************************************************************)
Rep(ch, n) == [i \in 1..n |-> ch]

PhoneExample1 == <<"+", "1", "2", "3", "4", "5", "6", "7", "8", "9", "0">>
PhoneExample2 == <<"+", "4", "9", " ", "1", "2", "3", " ", "4", "5", "6", "7", "8", "9">>
PhoneExample3 == <<"(", "5", "5", "5", ")", " ", "1", "2", "3", "-", "4", "5", "6", "7">>

PhoneFillers == {"1", " ", "-", "(", ")", "a", "\t"}
PhoneIntruders == {"a", "+", ".", "\t"}

PhoneInputs ==
  {Undefined, Num(<<"5">>), Str(PhoneExample1), Str(PhoneExample2), Str(PhoneExample3),
   Str(<<"a", "b", "c">>), Str(<<>>)}
  \cup {Str(pad \o plus \o Rep(ch, n) \o pad) :
          pad \in {<<>>, <<" ">>}, plus \in {<<>>, <<"+">>}, ch \in PhoneFillers,
          n \in 0..MaxPhoneLen}
  \cup {Str(plus \o Rep("1", 3) \o <<x>> \o Rep("1", n)) :
          plus \in {<<>>, <<"+">>}, x \in PhoneIntruders, n \in 0..(MaxPhoneLen - 4)}

CallIsValidPhoneNumber(phoneNumber) ==
  /\ res' = [route |-> "isValidPhoneNumber", by |-> "caller", status |-> 0,
             userId |-> <<>>, sent |-> -1, total |-> -1,
             input |-> phoneNumber, valid |-> isValidPhoneNumber(phoneNumber)]
  /\ UNCHANGED <<subscriptions, calls, hits, vapid>>

NextPhone == \E p \in PhoneInputs : CallIsValidPhoneNumber(p)

SpecPhone == Init /\ [][NextPhone]_vars

(***************************************************************************)
(* Vocabulary of the properties.                                           *)
(***************************************************************************)
\* What getSubscriptions(userId) yields in a given Store, as a sequence and
\* as a set of records.
Listed(store, userId) == ArrayItems(store, getSubscriptions(store, userId))
Records(store, userId) == {Listed(store, userId)[i] : i \in 1..Len(Listed(store, userId))}

\* The attempts of a call by outcome.
FulfilledOf(call) == {i \in 1..Len(call.results) : call.results[i].status = "fulfilled"}
PermanentOf(call) ==
  {i \in 1..Len(call.results) :
     call.results[i].status = "rejected" /\ call.results[i].statusCode \in {410, 400}}
OtherFailedOf(call) ==
  {i \in 1..Len(call.results) :
     call.results[i].status = "rejected" /\ call.results[i].statusCode \notin {410, 400}}

\* The records of the call's snapshot whose attempt failed permanently.
PermanentRecords(call) == {call.subscriptions.items[i] : i \in PermanentOf(call)}

\* The user holds no record, as an unknown user or otherwise.
NoneStored(store, userId) == ~MapHas(store, userId) \/ Len(store[userId]) = 0

\* The user's stored records are the ones the call took its snapshot of.
Undisturbed(call) == Listed(subscriptions, call.userId) = call.subscriptions.items

(***************************************************************************)
(* C1 as stated: when a sendToUser call over N subscriptions with M        *)
(* permanent failures returns, getSubscriptions(user) has N - M entries    *)
(* and the call returns {sent: N - M - other failures, total: N}.          *)
(***************************************************************************)
C1_FanOutCompleteness_AsStated ==
  [][\A c \in CallSlots :
       Resume(c) =>
         LET call == calls[c]
             N == Len(call.results)
             M == Cardinality(PermanentOf(call))
             other == Cardinality(OtherFailedOf(call))
         IN  /\ Len(Listed(subscriptions', call.userId)) = N - M
             /\ res'.sent = N - M - other
             /\ res'.total = N]_vars

(***************************************************************************)
(* C1 amended: the call always returns {sent: N - M - other, total: N};    *)
(* getSubscriptions(user) has N - M entries after the call when the user's *)
(* stored subscriptions at the time the attempts have settled are still    *)
(* the ones of the snapshot (nothing was registered or removed for the     *)
(* user while the call was pending).                                       *)
(***************************************************************************)
C1_FanOutCompleteness ==
  [][\A c \in CallSlots :
       Resume(c) =>
         LET call == calls[c]
             N == Len(call.results)
             M == Cardinality(PermanentOf(call))
             other == Cardinality(OtherFailedOf(call))
         IN  /\ Undisturbed(call) => Len(Listed(subscriptions', call.userId)) = N - M
             /\ res'.sent = N - M - other
             /\ res'.total = N]_vars

\* A webhook fan-out over two subscriptions returned: one permanent failure,
\* one other failure, one record left.
C1_Witness ==
  /\ res.route = "/webhooks/call"
  /\ res.status = 200
  /\ res.total = 2
  /\ res.sent = 0
  /\ Len(Listed(subscriptions, res.userId)) = 1

(***************************************************************************)
(* C2: a step of sendToUser removes from the Store exactly the records of  *)
(* its snapshot whose attempt failed with status 410 or 400; records whose *)
(* attempt was fulfilled or failed otherwise, and all other users, are     *)
(* left as they were; starting a call and settling an attempt change       *)
(* nothing in the Store.                                                   *)
(***************************************************************************)
C2_RemovesIffPermanent ==
  [][/\ \A c \in CallSlots :
          (calls[c].pc = "await" /\ calls'[c].pc # "await") =>
            \A u \in UserIds :
              Records(subscriptions', u) =
                IF u = calls[c].userId
                THEN Records(subscriptions, u) \ PermanentRecords(calls[c])
                ELSE Records(subscriptions, u)
     /\ \A c \in CallSlots :
          (calls'[c].pc = "await" /\ calls'[c] # calls[c]) => subscriptions' = subscriptions]_vars

\* A direct call over two subscriptions returned: one delivered and kept.
C2_Witness ==
  /\ res.route = "sendToUser"
  /\ res.total = 2
  /\ res.sent = 1
  /\ Len(Listed(subscriptions, res.userId)) = 1

\* Parts of C3: the attempts of a suspended call, and how a step may change
\* them.
C3_OneAttemptEach ==
  \A c \in CallSlots :
    calls[c].pc = "await" =>
      /\ Len(calls[c].attempts) = Len(calls[c].subscriptions.items)
      /\ Len(calls[c].results) = Len(calls[c].subscriptions.items)
      /\ \A i \in 1..Len(calls[c].attempts) : calls[c].attempts[i] = 1

C3_IndependentCompletion ==
  \A c \in CallSlots :
    calls[c].pc = "await" =>
      IF calls'[c].pc = "await" /\ calls'[c].subscriptions = calls[c].subscriptions
           /\ Len(calls'[c].results) = Len(calls[c].results)
      THEN /\ calls'[c].attempts = calls[c].attempts
           /\ \A i \in 1..Len(calls[c].results) :
                \/ calls'[c].results[i] = calls[c].results[i]
                \/ /\ calls[c].results[i].status = "pending"
                   /\ \A j \in 1..Len(calls[c].results) :
                        j # i => calls'[c].results[j] = calls[c].results[j]
      ELSE \A i \in 1..Len(calls[c].results) : calls[c].results[i].status # "pending"

(***************************************************************************)
(* C3: a suspended sendToUser has issued exactly one attempt per snapshot  *)
(* element; a settled attempt stays as it settled and is not issued again; *)
(* the settling of one attempt leaves every other attempt as it was; and   *)
(* the call leaves its await only when no attempt is pending.              *)
(***************************************************************************)
C3_FanOutIndependent == []C3_OneAttemptEach /\ [][C3_IndependentCompletion]_vars

\* The first attempt of a call failed and the second went on to succeed.
C3_Witness ==
  \E c \in CallSlots :
    /\ calls[c].pc = "await"
    /\ Len(calls[c].results) = 2
    /\ calls[c].results[1].status = "rejected"
    /\ calls[c].results[2].status = "fulfilled"

(***************************************************************************)
(* C4: whatever the outcomes of the attempts, the webhook request whose    *)
(* fan-out has settled is answered 200 with sent = number of fulfilled     *)
(* attempts and total = number of attempts, also when sent < total.        *)
(***************************************************************************)
C4_PartialFailureIsNoError ==
  [][\A c \in CallSlots :
       (calls[c].pc = "await" /\ calls[c].via = "webhook" /\ calls'[c].pc # "await") =>
         /\ res'.route = "/webhooks/call"
         /\ res'.status = 200
         /\ res'.sent = Cardinality(FulfilledOf(calls[c]))
         /\ res'.total = Len(calls[c].results)]_vars

\* A webhook was answered 200 although every one of two attempts failed
\* without a permanent classification.
C4_Witness ==
  /\ res.route = "/webhooks/call"
  /\ res.status = 200
  /\ res.sent = 0
  /\ res.total = 2
  /\ Len(Listed(subscriptions, res.userId)) = 2

(***************************************************************************)
(* C5: sendToUser for a user without stored subscriptions returns          *)
(* {sent: 0, total: 0}, suspends no call (issues no attempt) and leaves    *)
(* the Store unchanged.                                                    *)
(***************************************************************************)
C5_NoSubscriptions ==
  [][\A u \in UserIds :
       (/\ NoneStored(subscriptions, u)
        /\ calls' # calls \/ res'.route = "sendToUser"
        /\ SendToUser(u)) =>
         /\ res'.route = "sendToUser"
         /\ res'.sent = 0
         /\ res'.total = 0
         /\ calls' = calls
         /\ subscriptions' = subscriptions]_vars

\* sendToUser returned for a user unknown to a Store that holds another user.
C5_Witness ==
  /\ res.route = "sendToUser"
  /\ res.sent = 0
  /\ res.total = 0
  /\ ~MapHas(subscriptions, res.userId)
  /\ subscriptions # EmptyMap

(***************************************************************************)
(* C6: no user holds two identical records (identical as parsed records,   *)
(* which is identity of the serialized form), and adding a record the user *)
(* already holds leaves the Store as it is.                                *)
(***************************************************************************)
C6_SetSemantics ==
  /\ \A u \in DOMAIN subscriptions :
       \A i, j \in 1..Len(subscriptions[u]) :
         i # j => Listed(subscriptions, u)[i] # Listed(subscriptions, u)[j]
  /\ \A u \in UserIds, s \in Subscriptions :
       s \in Records(subscriptions, u) => addSubscription(subscriptions, u, s) = subscriptions

\* A user holds two records and no call is suspended.
C6_Witness ==
  /\ \E u \in UserIds : Len(Listed(subscriptions, u)) = 2
  /\ \A c \in CallSlots : calls[c].pc = "idle"
  /\ res = NoResponse

\* Parts of C7: the entries of the Store, and a step that empties one.
C7_NoEmptyEntry == \A u \in DOMAIN subscriptions : Len(subscriptions[u]) > 0

C7_LastRemovalPrunes ==
  \A u \in UserIds :
    (MapHas(subscriptions, u) /\ NoneStored(subscriptions', u)) =>
      /\ ~MapHas(subscriptions', u)
      /\ getUserCount(subscriptions') = getUserCount(subscriptions) - 1
      /\ Listed(subscriptions', u) = <<>>

(***************************************************************************)
(* C7: every user entry of the Store holds at least one record; a step     *)
(* that takes a user's last record away deletes the entry, so the user     *)
(* count of getStats drops by one and getSubscriptions of the user yields  *)
(* the empty sequence.                                                     *)
(***************************************************************************)
C7_NoDanglingUsers == []C7_NoEmptyEntry /\ [][C7_LastRemovalPrunes]_vars

\* The only subscription of a user failed permanently and the user is gone
\* while another user remains.
C7_Witness ==
  /\ res.route = "sendToUser"
  /\ res.total = 1
  /\ res.sent = 0
  /\ ~MapHas(subscriptions, res.userId)
  /\ getUserCount(subscriptions) = 1

(***************************************************************************)
(* C8: removeSubscription of a record the user does not hold, or for a     *)
(* user the Store does not know, yields the Store it was given.            *)
(***************************************************************************)
C8_RemoveAbsentIsNoOp ==
  \A u \in UserIds, s \in Subscriptions :
    s \notin Records(subscriptions, u) =>
      removeSubscription(subscriptions, u, s) = subscriptions

\* A settled call is about to remove a permanently failed record of a user
\* whom the Store no longer knows, while the other user holds a record.
C8_Witness ==
  /\ \E c \in CallSlots :
       /\ calls[c].pc = "await"
       /\ \A i \in 1..Len(calls[c].results) : calls[c].results[i].status # "pending"
       /\ PermanentOf(calls[c]) # {}
       /\ ~MapHas(subscriptions, calls[c].userId)
  /\ getUserCount(subscriptions) = 1

\* C9 of one step.
C9_SnapshotStep ==
  \A c \in CallSlots :
    /\ (/\ calls[c].pc \in {"await", "held"}
        /\ calls'[c].pc = calls[c].pc
        /\ calls'[c].subscriptions = calls[c].subscriptions) =>
         ArrayItems(subscriptions', calls'[c].subscriptions)
           = ArrayItems(subscriptions, calls[c].subscriptions)
    /\ (calls[c].pc = "held" /\ calls'[c].pc = "idle") => subscriptions' = subscriptions
    /\ (/\ calls[c].pc = "idle"
        /\ calls'[c].pc = "held"
        /\ ~MapHas(subscriptions, calls'[c].userId)) =>
         ArrayItems(subscriptions', calls'[c].subscriptions) = <<>>

(***************************************************************************)
(* C9: the array a caller got from getSubscriptions reads the same after   *)
(* every later step for as long as the caller keeps it; a caller that      *)
(* changes and drops its array leaves the Store as it is; the array got    *)
(* for an unknown user is empty.                                           *)
(***************************************************************************)
C9_SnapshotNotLiveView == [][C9_SnapshotStep]_vars

\* A fan-out is suspended over a snapshot that the Store has moved away from.
C9_Witness ==
  \E c \in CallSlots :
    /\ calls[c].pc = "await"
    /\ ArrayItems(subscriptions, calls[c].subscriptions) # Listed(subscriptions, calls[c].userId)

(***************************************************************************)
(* Vocabulary of the webhook properties.                                   *)
(***************************************************************************)
TokenAbsent(token) == token.t = "undefined" \/ token.s = <<>>
TokenWrong(token) == ~TokenAbsent(token) /\ token # WEBHOOK_TOKEN
TokenCorrect(token) == token = WEBHOOK_TOKEN
OwnerValid(body) ==
  body.owner_user_id.t = "string" /\ Trim(body.owner_user_id.s) # <<>>
BodyValid(body) == OwnerValid(body) /\ isValidPhoneNumber(body.callee_number)

\* What C10 says of the answer to a request.
C10_Outcomes(client, token, body) ==
  LET answer == WebhookAnswer(client, token, body)
  IN  /\ TokenAbsent(token) => answer.status = 401
      /\ TokenWrong(token) => answer.status = 403
      /\ (TokenCorrect(token) /\ ~isValidPhoneNumber(body.callee_number)) => answer.status = 400
      /\ (/\ TokenCorrect(token)
          /\ BodyValid(body)
          /\ NoneStored(subscriptions, Trim(body.owner_user_id.s))) =>
           answer.status = 200 /\ answer.sent = 0 /\ answer.total = 0

(***************************************************************************)
(* C10 as stated: in every state, POST /webhooks/call answers 401 to an    *)
(* absent token, 403 to a wrong token, 400 to a correct token with an      *)
(* invalid callee_number, and 200 with sent 0 and total 0 to a correct     *)
(* token and valid body for a user without subscriptions.                  *)
(***************************************************************************)
C10_WebhookOutcomes_AsStated ==
  \A cl \in Clients, t \in Tokens, b \in WebhookBodies : C10_Outcomes(cl, t, b)

(***************************************************************************)
(* C10 amended: the same outcomes for every request that the rate limiter  *)
(* passes on (at most 10 requests of the client counted in the window      *)
(* before it); a request the limiter rejects is answered 429 whatever its  *)
(* token and body.                                                         *)
(***************************************************************************)
C10_WebhookOutcomes ==
  \A cl \in Clients, t \in Tokens, b \in WebhookBodies :
    IF hits[cl] < RateLimitMax
    THEN C10_Outcomes(cl, t, b)
    ELSE WebhookAnswer(cl, t, b).status = 429

\* The tenth request of a window, with the correct token and a valid body for
\* a user without subscriptions, was answered 200 with zero counts.
C10_Witness ==
  /\ res.route = "/webhooks/call"
  /\ res.status = 200
  /\ res.sent = 0
  /\ res.total = 0
  /\ \E cl \in Clients : hits[cl] = RateLimitMax
  /\ subscriptions # EmptyMap

(***************************************************************************)
(* Vocabulary of the route properties: what a step shows of the request it *)
(* handled.                                                                *)
(***************************************************************************)
\* The step suspended a sendToUser called by the webhook handler.
WebhookCallStarted ==
  \E c \in CallSlots :
    calls[c].pc = "idle" /\ calls'[c].pc = "await" /\ calls'[c].via = "webhook"

\* The step ran sendToUser for a webhook request: suspended at its await, or
\* returned at once and answered by the handler.
WebhookReachedDispatcher ==
  \/ WebhookCallStarted
  \/ res'.route = "/webhooks/call" /\ res'.by = "handler" /\ calls' = calls

\* The step answered a webhook request with a rejection.
WebhookRejected ==
  res'.route = "/webhooks/call" /\ res'.status \in {400, 401, 403, 429}

(***************************************************************************)
(* C11: a step that runs sendToUser for a webhook request handles a        *)
(* request that is within the client's rate limit, carries the expected    *)
(* token and has a valid body, and the call is for that body's user; a     *)
(* step that answers a webhook request 400, 401, 403 or 429 starts no      *)
(* attempt and leaves the Store unchanged.                                 *)
(***************************************************************************)
C11_RejectedNeverDispatched ==
  [][/\ WebhookReachedDispatcher =>
          \A cl \in Clients, t \in Tokens, b \in WebhookBodies :
            PostWebhooksCall(cl, t, b) =>
              /\ hits[cl] < RateLimitMax
              /\ TokenCorrect(t)
              /\ BodyValid(b)
              /\ \A c \in CallSlots :
                   (calls[c].pc = "idle" /\ calls'[c].pc = "await") =>
                     calls'[c].userId = Trim(b.owner_user_id.s)
     /\ WebhookRejected => (calls' = calls /\ subscriptions' = subscriptions)]_vars

\* A request was answered 400 while the Store held records and a fan-out of
\* an earlier request was still pending.
C11_Witness ==
  /\ res.route = "/webhooks/call"
  /\ res.status = 400
  /\ \E c \in CallSlots : calls[c].pc = "await" /\ calls[c].via = "webhook"
  /\ subscriptions # EmptyMap

\* The step handled a webhook request of the client: the limiter counted it,
\* or rejected it with its counter already beyond max.
WebhookRequestOf(client) ==
  hits'[client] > hits[client] \/ res'.by = "webhookLimiter"

\* C12 of one step.
C12_LimiterStep ==
  \A cl \in Clients :
    /\ WebhookRequestOf(cl) =>
         IF hits[cl] < RateLimitMax
         THEN hits'[cl] = hits[cl] + 1 /\ res'.by # "webhookLimiter" /\ res'.status # 429
         ELSE /\ hits'[cl] > RateLimitMax
              /\ res'.route = "/webhooks/call"
              /\ res'.by = "webhookLimiter"
              /\ res'.status = 429
              /\ calls' = calls
    /\ hits'[cl] < hits[cl] => (hits'[cl] = 0 /\ res' = NoResponse /\ calls' = calls)

(***************************************************************************)
(* C12: the limiter counts every webhook request of a client from the      *)
(* start of the window; a request is passed on to the handler chain only   *)
(* while fewer than 10 requests of the client were counted before it, and  *)
(* every further request of the window is answered 429 by the limiter and  *)
(* starts nothing; the count goes back to 0 only when the window ends.     *)
(***************************************************************************)
C12_RateLimit == [][C12_LimiterStep]_vars

\* The eleventh request of a window was answered 429.
C12_Witness ==
  /\ res.by = "webhookLimiter"
  /\ res.status = 429
  /\ \E cl \in Clients : hits[cl] = RateLimitMax + 1

(***************************************************************************)
(* Vocabulary of the registration property.  A field is given when it is   *)
(* present with a non-empty value.                                         *)
(***************************************************************************)
HeaderBlank(headerValue) == headerValue.t = "undefined" \/ Trim(headerValue.s) = <<>>

EndpointGiven(body) ==
  \E i \in 1..Len(body) : body[i].k = "endpoint" /\ body[i].t = "string" /\ body[i].v # ""

KeysGiven(body) ==
  \E i \in 1..Len(body) :
    /\ body[i].k = "keys"
    /\ body[i].t = "object"
    /\ \A name \in {"p256dh", "auth"} :
         \E j \in 1..Len(body[i].o) : body[i].o[j].k = name /\ body[i].o[j].v # ""

(***************************************************************************)
(* C13: in every state, POST /api/devices with a missing or blank          *)
(* X-User-Id, or with a body without a non-empty endpoint string or        *)
(* without a keys object that gives both p256dh and auth, is answered 400  *)
(* and leaves the Store unchanged; every other request is answered 201 and *)
(* adds the body to the records of the user named by the header, and to no *)
(* other user.                                                             *)
(***************************************************************************)
C13_Registration ==
  \A h \in HeaderValues, b \in DeviceBodies :
    LET answer == DevicesAnswer(h, b)
        after == DevicesStore(subscriptions, h, b)
    IN  IF HeaderBlank(h) \/ ~EndpointGiven(b) \/ ~KeysGiven(b)
        THEN answer.status = 400 /\ after = subscriptions
        ELSE /\ answer.status = 201
             /\ answer.userId = Trim(h.s)
             /\ \A u \in UserIds :
                  Records(after, u) =
                    IF u = Trim(h.s)
                    THEN Records(subscriptions, u) \cup {b}
                    ELSE Records(subscriptions, u)

\* A registration was answered 201 and the user holds two records.
C13_Witness ==
  /\ res.route = "/api/devices"
  /\ res.status = 201
  /\ Len(Listed(subscriptions, res.userId)) = 2

\* initialize has been called in this process.
VapidInitialized == vapid.adminEmail # Unset

(***************************************************************************)
(* C14: a call of initialize in a process where initialize has been called *)
(* leaves getPublicKey as it was, and in every state at most one generated *)
(* keypair has been written to the log.                                    *)
(***************************************************************************)
C14_InitializeIdempotent ==
  [][/\ (VapidInitialized /\ vapid' # vapid) => getPublicKey(vapid') = getPublicKey(vapid)
     /\ Len(vapid'.log) <= 1]_vars

(***************************************************************************)
(* Vocabulary of the statistics property.                                  *)
(***************************************************************************)
UsersHolding(store) == {u \in UserIds : Records(store, u) # {}}

RECURSIVE SumOfSizes(_, _)
SumOfSizes(store, users) ==
  IF users = {} THEN 0
  ELSE LET u == CHOOSE x \in users : TRUE
       IN  Cardinality(Records(store, u)) + SumOfSizes(store, users \ {u})

\* The value of a sequence of decimal digits.
RECURSIVE DigitsValue(_)
DigitsValue(s) ==
  IF s = <<>> THEN 0
  ELSE 10 * DigitsValue(SubSeq(s, 1, Len(s) - 1))
         + (CHOOSE d \in 0..9 : DigitChar(d) = s[Len(s)])

\* The hundredths denoted by a decimal string with two decimals, "i.dd".
IsFixed2(s) ==
  /\ Len(s) >= 4
  /\ s[Len(s) - 2] = "."
  /\ \A i \in (1..Len(s)) \ {Len(s) - 2} : s[i] \in Digits
Hundredths(s) ==
  100 * DigitsValue(SubSeq(s, 1, Len(s) - 3)) + DigitsValue(SubSeq(s, Len(s) - 1, Len(s)))

(***************************************************************************)
(* C15 as stated: in every state getStats returns users = number of users  *)
(* holding a subscription, totalSubscriptions = sum of the sizes of their  *)
(* sets, and avgSubscriptionsPerUser = the number totalSubscriptions /     *)
(* users, the number 0 when there are no users.                            *)
(***************************************************************************)
C15_Stats_AsStated ==
  LET stats == getStats(subscriptions)
      users == Cardinality(UsersHolding(subscriptions))
      total == SumOfSizes(subscriptions, UsersHolding(subscriptions))
  IN  /\ stats.users = users
      /\ stats.totalSubscriptions = total
      /\ stats.avgSubscriptionsPerUser.t = "number"
      /\ DigitsValue(stats.avgSubscriptionsPerUser.s) * users = total

(***************************************************************************)
(* C15 amended: users and totalSubscriptions as stated;                    *)
(* avgSubscriptionsPerUser is the number 0 when there are no users, and    *)
(* otherwise a string of the form i.dd that denotes totalSubscriptions /   *)
(* users rounded to the nearest hundredth.                                 *)
(***************************************************************************)
C15_Stats ==
  LET stats == getStats(subscriptions)
      users == Cardinality(UsersHolding(subscriptions))
      total == SumOfSizes(subscriptions, UsersHolding(subscriptions))
      avg == stats.avgSubscriptionsPerUser
  IN  /\ stats.users = users
      /\ stats.totalSubscriptions = total
      /\ IF users = 0
         THEN avg = Num(<<"0">>)
         ELSE /\ avg.t = "string"
              /\ IsFixed2(avg.s)
              /\ 2 * (Hundredths(avg.s) * users - 100 * total) <= users
              /\ 2 * (100 * total - Hundredths(avg.s) * users) <= users

\* Two users hold three records: the average is the string 1.50.
C15_Witness ==
  /\ getUserCount(subscriptions) = 2
  /\ getTotalSubscriptions(subscriptions) = 3
  /\ getStats(subscriptions).avgSubscriptionsPerUser = Str(<<"1", ".", "5", "0">>)

(***************************************************************************)
(* Vocabulary of the phone property.  The significant characters of a      *)
(* value are those of the trimmed value after an optional leading +;       *)
(* spaces are the white-space characters.                                  *)
(***************************************************************************)
Significant(s) ==
  LET t == Trim(s) IN IF t # <<>> /\ Head(t) = "+" THEN Tail(t) ELSE t

PhoneCharacters == Digits \cup WhiteSpace \cup {"-", "(", ")"}

C17_AccountingStep ==
  \A c \in CallSlots :
    /\ (calls[c].pc = "idle" /\ calls'[c].pc = "await") =>
         calls'[c].subscriptions.items = Listed(subscriptions, calls'[c].userId)
    /\ (calls[c].pc = "await" /\ calls'[c].pc = "await") =>
         ArrayItems(subscriptions', calls'[c].subscriptions)
           = ArrayItems(subscriptions, calls[c].subscriptions)
    /\ (calls[c].pc = "await" /\ calls'[c].pc # "await") =>
         /\ res'.userId = calls[c].userId
         /\ res'.total = Len(ArrayItems(subscriptions, calls[c].subscriptions))
         /\ res'.sent = Cardinality(FulfilledOf(calls[c]))
         /\ 0 <= res'.sent /\ res'.sent <= res'.total
         /\ res'.total - res'.sent
              = Cardinality(PermanentOf(calls[c])) + Cardinality(OtherFailedOf(calls[c]))

(***************************************************************************)
(* C17: a sendToUser call takes its snapshot of the user's subscriptions   *)
(* when it starts and the snapshot stays as taken while the attempts are   *)
(* pending, whatever is done to the Store; the call returns total = length *)
(* of the snapshot and sent = number of fulfilled attempts, so that        *)
(* 0 <= sent <= total and total - sent = number of failed attempts.        *)
(***************************************************************************)
C17_Accounting == [][C17_AccountingStep]_vars

\* A call over one subscription returned {sent: 1, total: 1} while the user
\* holds two records, one registered during the call.
C17_Witness ==
  /\ res.route = "sendToUser"
  /\ res.total = 1
  /\ res.sent = 1
  /\ Len(Listed(subscriptions, res.userId)) = 2

\* The records of the call's snapshot.
SnapshotRecords(call) ==
  {call.subscriptions.items[i] : i \in 1..Len(call.subscriptions.items)}

\* C18 of one step.
C18_InterleavedStep ==
  \A c \in CallSlots :
    /\ (calls[c].pc = "await" /\ res'.route = "/api/devices" /\ res'.status = 201) =>
         /\ calls' = calls
         /\ \A s \in Records(subscriptions, calls[c].userId) :
              s \in Records(subscriptions', calls[c].userId)
    /\ (calls[c].pc = "await" /\ calls'[c].pc # "await") =>
         LET u == calls[c].userId
             before == Records(subscriptions, u)
             after == Records(subscriptions', u)
         IN  /\ after \subseteq before
             /\ (before \ after) \subseteq PermanentRecords(calls[c])
             /\ \A s \in before \ SnapshotRecords(calls[c]) : s \in after
             /\ \A s \in before \cap PermanentRecords(calls[c]) : s \notin after

(***************************************************************************)
(* C18: a registration handled while a fan-out is pending leaves the call  *)
(* and the stored records as they are and adds its own; when the call      *)
(* resumes it removes nothing but records equal to a record of its own     *)
(* snapshot whose attempt failed permanently: every record of the user     *)
(* that is not in the snapshot, registered meanwhile, is still stored      *)
(* after the call, and every stored record equal to a permanently failed   *)
(* snapshot record is deleted, re-registered meanwhile or not.             *)
(***************************************************************************)
C18_RegistrationInterleaved == [][C18_InterleavedStep]_vars

\* A fan-out has settled with a permanent failure while the user holds a
\* record registered after the snapshot was taken.
C18_Witness ==
  \E c \in CallSlots :
    /\ calls[c].pc = "await"
    /\ AllSettled(calls[c].results)
    /\ PermanentOf(calls[c]) # {}
    /\ Records(subscriptions, calls[c].userId) \ SnapshotRecords(calls[c]) # {}

\* Another call for the same user is suspended next to call c.
Overlapped(c) ==
  \E d \in CallSlots \ {c} : calls[d].pc = "await" /\ calls[d].userId = calls[c].userId

\* C19 of one step.
C19_OverlapStep ==
  /\ (\A c \in CallSlots : ~(calls[c].pc = "await" /\ calls'[c].pc # "await")) =>
       (calls' # calls => subscriptions' = subscriptions)
  /\ \A c \in CallSlots :
       /\ (calls[c].pc = "await" /\ calls'[c].pc # "await") =>
            /\ \A i \in 1..Len(calls[c].results) : calls[c].results[i].status # "pending"
            /\ res'.route = "sendToUser"
            /\ res'.userId = calls[c].userId
            /\ res'.total = Len(calls[c].subscriptions.items)
            /\ res'.sent = Cardinality(FulfilledOf(calls[c]))
            /\ \A u \in UserIds :
                 Records(subscriptions', u) =
                   IF u = calls[c].userId
                   THEN Records(subscriptions, u) \ PermanentRecords(calls[c])
                   ELSE Records(subscriptions, u)
            /\ (PermanentRecords(calls[c]) \cap Records(subscriptions, calls[c].userId) = {}) =>
                 subscriptions' = subscriptions
       /\ \A d \in CallSlots :
            (/\ calls[c].pc = "await"
             /\ Undisturbed(calls[c])
             /\ calls[d].pc = "idle"
             /\ calls'[d].pc = "await"
             /\ calls'[d].userId = calls[c].userId) =>
              /\ calls'[d].subscriptions.items = calls[c].subscriptions.items
              /\ Len(calls'[d].attempts) = Len(calls[c].attempts)

\* The Store in a state of overlapping calls: no duplicates, no empty entry.
C19_StoreInvariants ==
  \A u \in DOMAIN subscriptions :
    /\ Len(subscriptions[u]) > 0
    /\ \A i, j \in 1..Len(subscriptions[u]) : i # j => subscriptions[u][i] # subscriptions[u][j]

(***************************************************************************)
(* C19: a step of the Dispatcher that returns from no call leaves the      *)
(* Store unchanged, and a call returns only when all its attempts have     *)
(* settled; a call started for a user while another call for that user is  *)
(* pending over an undisturbed Store snapshots and attempts the same       *)
(* subscriptions; a returning call returns the counts of its own snapshot  *)
(* and removes the permanently failed records that are still stored, which *)
(* is nothing at all when the other call has removed them before; the      *)
(* Store holds no duplicate and no empty user entry throughout.            *)
(***************************************************************************)
C19_OverlappingCalls == []C19_StoreInvariants /\ [][C19_OverlapStep]_vars

\* Two calls for one user are suspended over the same snapshot; the attempt
\* of one has failed permanently, the other's attempt is still pending.
C19_Witness ==
  \E c \in CallSlots :
    /\ calls[c].pc = "await"
    /\ AllSettled(calls[c].results)
    /\ PermanentOf(calls[c]) # {}
    /\ Overlapped(c)
    /\ \A d \in CallSlots :
         calls[d].pc = "await" =>
           calls[d].subscriptions.items = calls[c].subscriptions.items

\* The users other than u hold in store b what they hold in store a.
OthersAlike(a, b, u) ==
  \A v \in UserIds \ {u} : MapHas(a, v) = MapHas(b, v) /\ Listed(a, v) = Listed(b, v)

\* C20 of the Store operations, in one state.
C20_StoreIsolation ==
  \A u \in UserIds, s \in Subscriptions :
    /\ OthersAlike(subscriptions, addSubscription(subscriptions, u, s), u)
    /\ OthersAlike(subscriptions, removeSubscription(subscriptions, u, s), u)

\* C20 of one step of sendToUser: its start (or return at once), the
\* settling of its attempts, its return.
C20_DispatcherStep ==
  /\ \A c \in CallSlots :
       (calls'[c] # calls[c] /\ (calls[c].pc = "await" \/ calls'[c].pc = "await")) =>
         LET u == IF calls[c].pc = "await" THEN calls[c].userId ELSE calls'[c].userId
         IN  /\ OthersAlike(subscriptions, subscriptions', u)
             /\ Records(subscriptions', u) \subseteq Records(subscriptions, u)
  /\ res'.route = "sendToUser" =>
       /\ OthersAlike(subscriptions, subscriptions', res'.userId)
       /\ Records(subscriptions', res'.userId) \subseteq Records(subscriptions, res'.userId)

(***************************************************************************)
(* C20: addSubscription(u, s) and removeSubscription(u, s) leave the       *)
(* entry and the records of every user other than u as they are; so does   *)
(* every step of a sendToUser(u, p) call, and such a step adds no record   *)
(* to the records of u either.                                             *)
(***************************************************************************)
C20_UserIsolation == []C20_StoreIsolation /\ [][C20_DispatcherStep]_vars

\* A call removed the only record of its user while the other user holds
\* two records.
C20_Witness ==
  /\ res.route = "sendToUser"
  /\ res.total = 1
  /\ res.sent = 0
  /\ ~MapHas(subscriptions, res.userId)
  /\ \E v \in UserIds : Len(Listed(subscriptions, v)) = 2

\* C21 of one state: what a request with the expected token and a valid
\* body meets once the client's count has reached max.
C21_QuotaSpent ==
  \A cl \in Clients, b \in WebhookBodies :
    (hits[cl] >= RateLimitMax /\ BodyValid(b)) =>
      /\ WebhookAnswer(cl, WEBHOOK_TOKEN, b).status = 429
      /\ WebhookAnswer(cl, WEBHOOK_TOKEN, b).by = "webhookLimiter"
      /\ ~WebhookDispatches(cl, WEBHOOK_TOKEN, b)

\* C21 of one step: a request answered by the token check has been counted.
C21_TokenFailureCounts ==
  (res'.by = "validateWebhookToken" /\ res'.status \in {401, 403}) =>
    /\ \E cl \in Clients :
         /\ hits'[cl] = hits[cl] + 1
         /\ hits'[cl] <= RateLimitMax
         /\ \A other \in Clients \ {cl} : hits'[other] = hits[other]
    /\ calls' = calls

(***************************************************************************)
(* C21: the limiter runs before the token check: a request answered 401 or *)
(* 403 has raised the client's count of the window by one, and once the    *)
(* count has reached 10, by requests with whatever token, a request with   *)
(* the expected token and a valid body is answered 429 by the limiter and  *)
(* does not reach sendToUser.                                              *)
(***************************************************************************)
C21_LimiterBeforeToken == []C21_QuotaSpent /\ [][C21_TokenFailureCounts]_vars

\* The tenth request of the window was answered 403 and has used up the
\* quota, while the Store holds records to notify.
C21_Witness ==
  /\ res.by = "validateWebhookToken"
  /\ res.status = 403
  /\ \E cl \in Clients : hits[cl] = RateLimitMax
  /\ subscriptions # EmptyMap

====
